---- MODULE Spec2Model ----
(***************************************************************************)
(* Conversation memory of the speech/chat backend.                         *)
(*                                                                         *)
(*   - MemoryService.optimize_conversation_history (services/memory.py),   *)
(*     a pure function of the message list and the memory settings;        *)
(*   - ConversationService.summarize_memory (services/conversation.py)     *)
(*     and MongoMemoryRepository.update_summary (repositories/memory.py),  *)
(*     run by concurrent callers against one conversation's documents.     *)
(*                                                                         *)
(*   - ChatService.process_chat_with_conversation (services/chat.py) and   *)
(*     ConversationService.delete_conversation, run concurrently with them.*)
(*                                                                         *)
(* SpecOpt applies the optimizer to every bounded input list and setting,  *)
(* SpecSnippet to lists whose contents lie around the snippet limit,       *)
(* SpecArg to arguments that are not lists, SpecShape to lists of messages *)
(* that differ from one another, and to the lists it returns;              *)
(* Spec interleaves the steps (one per await) of summarize_memory calls;   *)
(* SpecChat interleaves two chat turns, the summarize_memory calls they    *)
(* make, and one delete_conversation; SpecSeq runs one client's turns one  *)
(* after another.                                                          *)
(***************************************************************************)
EXTENDS Integers, Sequences, FiniteSets, TLC

VARIABLES
    memory_max_messages,   \* settings.memory.MEMORY_MAX_MESSAGES
    summarize_threshold,   \* settings.memory.MEMORY_SUMMARIZE_THRESHOLD
    messages,              \* argument of optimize_conversation_history: its items
    messages_type,         \* the type of that argument (list, NoneType, tuple, int)
    optPc,                 \* "build" while the argument is assembled, "done" after the call
    optResult,             \* what the call produced: a list, or an exception
    memory_enabled,        \* settings.memory.MEMORY_ENABLED
    has_api_client,        \* ConversationService.external_api_client is set
    legacy_index,          \* memory_summaries already has a non-unique conversation_id index
    unique_index,          \* memory_conversation_id_unique exists on memory_summaries
    conversation_doc,      \* the conversation's document in the conversations collection
    message_rows,          \* its documents in the messages collection, by timestamp
    summary_rows,          \* its documents in memory_summaries, in natural order
    pc,                    \* per caller: where its summarize_memory call stands
    fetched,               \* per caller: the messages its call read
    summary_text,          \* per caller: the stripped completion text of its call
    result,                \* per caller: what its last call returned
    api_state,             \* per caller: its call's completion request (not_called, pending, success, failure)
    wrote,                 \* per caller: its call changed a summary row or the flag
    solo,                  \* per caller: no other call was in flight during its call
    calls_made,            \* summarize_memory calls started so far
    just_returned,         \* the caller whose call returned in the last step, or "none"
    solo_streak,           \* consecutive calls that ran alone and returned true (0..2)
    last_upsert,           \* the last write update_summary issued: its caller, its text,
                           \* and how many messages the transcript behind the text held
    turn,                  \* per caller: its process_chat_with_conversation call
    deleter                \* the delete_conversation call

optVars == <<memory_max_messages, summarize_threshold, messages, messages_type,
             optPc, optResult>>

settingVars == <<memory_max_messages, summarize_threshold, memory_enabled,
                 has_api_client, legacy_index>>

storeVars == <<unique_index, conversation_doc, message_rows, summary_rows>>

chatVars == <<turn, deleter>>

callVars == <<pc, fetched, summary_text, result, api_state, wrote, solo,
              calls_made, just_returned, solo_streak, last_upsert>>

vars == <<memory_max_messages, summarize_threshold, messages, messages_type,
          optPc, optResult,
          memory_enabled, has_api_client, legacy_index, unique_index,
          conversation_doc, message_rows, summary_rows, pc, fetched, summary_text,
          result, api_state, wrote, solo, calls_made, just_returned, solo_streak,
          last_upsert, turn, deleter>>

----------------------------------------------------------------------------
(* Bounds of the model *)

\* longest argument list given to the optimizer
MaxLen == 4
\* largest MEMORY_MAX_MESSAGES tried (0 .. MaxMaxMessages)
MaxMaxMessages == 3
\* largest MEMORY_SUMMARIZE_THRESHOLD tried (0 .. MaxThreshold)
MaxThreshold == 4
\* most user/assistant messages stored for the conversation
MaxStored == 3
\* most summarize_memory calls started in one behaviour
MaxCalls == 4
\* largest MEMORY_MAX_MESSAGES tried with chat turns (1 .. MaxWindow)
MaxWindow == 1
\* most user/assistant messages stored when one more turn of a sequence starts
MaxHistory == 4

----------------------------------------------------------------------------
(* Python values *)

Min2(a, b) == IF a <= b THEN a ELSE b

Max2(a, b) == IF a >= b THEN a ELSE b

\* seq[i:] for any integer i (a negative i counts from the end; -0 is 0)
PySliceFrom(seq, i) ==
    LET n == Len(seq)
        start == IF i < 0 THEN Max2(0, n + i) ELSE Min2(i, n)
    IN SubSeq(seq, start + 1, n)

\* seq[:i] for any integer i
PySliceTo(seq, i) ==
    LET n == Len(seq)
        stop == IF i < 0 THEN Max2(0, n + i) ELSE Min2(i, n)
    IN SubSeq(seq, 1, stop)

\* needle in haystack, for strings as character sequences
Contains(haystack, needle) ==
    \E i \in 1..(Len(haystack) - Len(needle) + 1) :
        SubSeq(haystack, i, i + Len(needle) - 1) = needle

RECURSIVE Repeat(_, _)
Repeat(ch, n) == IF n = 0 THEN <<>> ELSE <<ch>> \o Repeat(ch, n - 1)

Digit(d) == CASE d = 0 -> "0" [] d = 1 -> "1" [] d = 2 -> "2" [] d = 3 -> "3"
              [] d = 4 -> "4" [] d = 5 -> "5" [] d = 6 -> "6" [] d = 7 -> "7"
              [] d = 8 -> "8" [] d = 9 -> "9"

\* str(n) for n >= 0, as the f-string formats total_msgs
RECURSIVE IntToStr(_)
IntToStr(n) == IF n < 10 THEN <<Digit(n)>> ELSE IntToStr(n \div 10) \o <<Digit(n % 10)>>

\* A value of a dict key: a str, None, or the key is absent
Str(chars) == [t |-> "str", s |-> chars]
None == [t |-> "none", s |-> <<>>]
Missing == [t |-> "missing", s |-> <<>>]

\* dict.get(key, default)
Get(value, default) == IF value.t = "missing" THEN default ELSE value

\* Python truthiness of a str or None
Truthy(value) == value.t = "str" /\ value.s # <<>>

Dict(role, content) == [isDict |-> TRUE, role |-> role, content |-> content]

\* a list entry that is not a dict
NotADict == [isDict |-> FALSE, role |-> Missing, content |-> Missing]

----------------------------------------------------------------------------
(* MemoryService.optimize_conversation_history *)

SummaryMarker ==
    <<"P", "r", "e", "v", "i", "o", "u", "s", " ", "c", "o", "n", "v", "e", "r",
      "s", "a", "t", "i", "o", "n", " ", "s", "u", "m", "m", "a", "r", "y", ":">>

FallbackPrefix ==
    <<"P", "r", "e", "v", "i", "o", "u", "s", " ", "c", "o", "n", "v", "e", "r",
      "s", "a", "t", "i", "o", "n", " ", "w", "i", "t", "h", " ">>

FallbackMiddle ==
    <<" ", "m", "e", "s", "s", "a", "g", "e", "s", ".", " ", "M", "o", "s", "t",
      " ", "r", "e", "c", "e", "n", "t", " ", "t", "o", "p", "i", "c", ":", " ">>

Ellipsis == <<".", ".", ".">>

\* len(last_msg) > 100
SnippetLimit == 100
\* last_msg[:97]
SnippetKeep == 97

RoleOf(msg) == Get(msg.role, None)

IsSystem(msg) == msg.isDict /\ RoleOf(msg) = Str(<<"system">>)

\* the else branch appending to conversation instead of skipping
IsConversationOrUnknown(msg) == msg.isDict /\ RoleOf(msg) # Str(<<"system">>)

IsConversation(msg) ==
    msg.isDict /\ RoleOf(msg) \in {Str(<<"user">>), Str(<<"assistant">>)}

\* a partition that keeps only the last system message
SystemMessagesLatest(msgs) == PySliceFrom(SelectSeq(msgs, IsSystem), 0 - 1)

\* the partition loop: non-dict entries and unknown roles are logged and skipped
SystemMessages(msgs) == SelectSeq(msgs, IsSystem)

Conversation(msgs) == SelectSeq(msgs, IsConversation)

\* if content and "Previous conversation summary:" in content
CarriesMarker(msg) ==
    LET content == Get(msg.content, Str(<<>>))
    IN Truthy(content) /\ Contains(content.s, SummaryMarker)

HasMarker(system_messages) ==
    \E i \in 1..Len(system_messages) : CarriesMarker(system_messages[i])

\* conversation[-keep_count:] with keep_count = min(max, len(conversation))
MarkerTail(conversation, max_messages) ==
    LET keep_count == Min2(max_messages, Len(conversation))
    IN PySliceFrom(conversation, 0 - keep_count)

\* split_point = max(0, len(conversation) - self.memory_max_messages + 2)
SplitPoint(conversation, max_messages) ==
    Max2(0, Len(conversation) - max_messages + 2)

\* the cut made at the limit instead of three characters before it
SnippetCutAtLimit(last_msg) ==
    IF Len(last_msg) > SnippetLimit
    THEN PySliceTo(last_msg, SnippetLimit) \o Ellipsis
    ELSE last_msg

\* last_msg[:97] + "..." if len(last_msg) > 100
Snippet(last_msg) ==
    IF Len(last_msg) > SnippetLimit
    THEN PySliceTo(last_msg, SnippetKeep) \o Ellipsis
    ELSE last_msg

FallbackContent(total_msgs, last_msg) ==
    FallbackPrefix \o IntToStr(total_msgs) \o FallbackMiddle \o last_msg

\* a fallback message under a role of its own, which the partition loop skips
SummaryMessageAsNote(older_messages) ==
    LET last_msg == Get(older_messages[Len(older_messages)].content, Str(<<>>))
    IN Dict(Str(<<"note">>),
            Str(FallbackContent(Len(older_messages), Snippet(last_msg.s))))

\* summary_message = {"role": "system", "content": f"Previous conversation with ..."}
SummaryMessage(older_messages) ==
    LET last_msg == Get(older_messages[Len(older_messages)].content, Str(<<>>))
    IN Dict(Str(<<"system">>),
            Str(FallbackContent(Len(older_messages), Snippet(last_msg.s))))

Returned(list, synthetic) == [raised |-> FALSE, out |-> list, synthetic |-> synthetic]

\* an exception leaves the call: there is no returned list
Raised == [raised |-> TRUE, out |-> <<>>, synthetic |-> FALSE]

\* len(last_msg) raises TypeError when the content key holds None
FallbackBranch(system_messages, older_messages, recent_messages) ==
    IF Get(older_messages[Len(older_messages)].content, Str(<<>>)).t = "none"
    THEN Raised
    ELSE Returned(system_messages \o <<SummaryMessage(older_messages)>> \o recent_messages,
                  TRUE)

\* the comparison written strict: a list of exactly max_messages is truncated
ShortEnoughStrict(conversation, max_messages) == Len(conversation) < max_messages

ShortEnough(conversation, max_messages) == Len(conversation) <= max_messages

\* the test on the threshold left out
EnoughOlderAny(older_messages, threshold) == older_messages # <<>>

\* if older_messages and len(older_messages) >= self.summarize_threshold
EnoughOlder(older_messages, threshold) ==
    older_messages # <<>> /\ Len(older_messages) >= threshold

OptimizeConversationHistory(msgs, max_messages, threshold) ==
    LET system_messages == SystemMessages(msgs)
        conversation == Conversation(msgs)
        split_point == SplitPoint(conversation, max_messages)
        older_messages == PySliceTo(conversation, split_point)
        recent_messages == PySliceFrom(conversation, split_point)
    IN IF Len(msgs) = 0 THEN Returned(<<>>, FALSE)
       ELSE IF ShortEnough(conversation, max_messages)
            THEN Returned(system_messages \o conversation, FALSE)
       ELSE IF HasMarker(system_messages)
            THEN Returned(system_messages \o MarkerTail(conversation, max_messages), FALSE)
       ELSE IF EnoughOlder(older_messages, threshold)
            THEN FallbackBranch(system_messages, older_messages, recent_messages)
       ELSE Returned(system_messages \o recent_messages, FALSE)

\* the type test left out: whatever is not None is taken for a list
IsListOrAnything(type) == TRUE

\* isinstance(messages, list)
IsList(type) == type = "list"

\* a call that leaves its argument partitioned in place
ArgumentAfterSorted(msgs) == SystemMessages(msgs) \o Conversation(msgs)

\* the argument after the call: the loop and the slices read it and build new
\* lists, nothing is assigned to it or to its entries
ArgumentAfter(msgs) == msgs

\* the call with an argument of any type: None and a value that is not a list
\* are answered with an empty list before the list is looked at
OptimizeCall(type, msgs, max_messages, threshold) ==
    IF type = "NoneType" THEN Returned(<<>>, FALSE)
    ELSE IF ~IsList(type) THEN Returned(<<>>, FALSE)
    ELSE OptimizeConversationHistory(msgs, max_messages, threshold)

----------------------------------------------------------------------------
(* The argument lists tried *)

\* the types of argument tried: a list, None, a tuple of the same items, an int
ArgTypes == {"list", "NoneType", "tuple", "int"}

\* the types whose values hold items
Sized(type) == type \in {"list", "tuple"}

ShortText == <<"h", "i">>

LongText == Repeat("x", SnippetLimit + 1)

\* a content of exactly the length up to which the snippet is left whole
EdgeText == Repeat("y", SnippetLimit)

\* a content one character over that length, whose end differs from its start
TailedText == Repeat("x", SnippetKeep) \o <<"a", "b", "c", "d">>

MarkerText == SummaryMarker \o <<" ", "s">>

Entries ==
    { Dict(Str(<<"system">>), Str(ShortText)),
      Dict(Str(<<"system">>), Str(MarkerText)),
      Dict(Str(<<"user">>), Str(ShortText)),
      Dict(Str(<<"assistant">>), Str(LongText)),
      Dict(Str(<<"user">>), None),
      Dict(Str(<<"assistant">>), Missing),
      Dict(Str(<<"moderator">>), Str(ShortText)),
      Dict(Missing, Missing),
      NotADict }

\* the reply of the assistant
ReplyText == <<"o", "k">>

\* the entries tried for the shape of the output: messages that differ by
\* role and content, one without content, one of a role that is skipped
ShapeEntries ==
    { Dict(Str(<<"system">>), Str(ShortText)),
      Dict(Str(<<"system">>), Str(MarkerText)),
      Dict(Str(<<"user">>), Str(ShortText)),
      Dict(Str(<<"assistant">>), Str(ReplyText)),
      Dict(Str(<<"user">>), None),
      Dict(Str(<<"moderator">>), Str(ShortText)) }

\* the entries tried around the snippet limit
SnippetEntries ==
    { Dict(Str(<<"system">>), Str(ShortText)),
      Dict(Str(<<"user">>), Str(ShortText)),
      Dict(Str(<<"user">>), Str(EdgeText)),
      Dict(Str(<<"assistant">>), Str(TailedText)),
      Dict(Str(<<"assistant">>), Missing) }

NotRun == [raised |-> FALSE, out |-> <<>>, synthetic |-> FALSE]

----------------------------------------------------------------------------
(* The conversation's documents and the summarize_memory callers *)

Callers == {"c1", "c2"}

\* Database.connect of core/database.py creates a plain index on
\* memory_summaries.conversation_id; where it has run, creating the unique
\* index under another name fails with a conflict
LegacyIndexStates == BOOLEAN

\* MEMORY_MAX_MESSAGES as shipped
DefaultMaxMessages == 15

IsSpace(ch) == ch = " "

\* str.strip()
RECURSIVE LStrip(_)
LStrip(chars) ==
    IF chars # <<>> /\ IsSpace(Head(chars)) THEN LStrip(Tail(chars)) ELSE chars

RECURSIVE RStrip(_)
RStrip(chars) ==
    IF chars # <<>> /\ IsSpace(chars[Len(chars)])
    THEN RStrip(SubSeq(chars, 1, Len(chars) - 1))
    ELSE chars

Strip(chars) == RStrip(LStrip(chars))

\* result["message"] of a successful completion, before strip(): a text
\* between spaces, and a blank one
CompletionTexts == { <<" ", "A", " ">>, <<" ">> }

SystemPrompt == Dict(Str(<<"system">>), Str(ShortText))

LowerCase ==
    <<"a", "b", "c", "d", "e", "f", "g", "h", "i", "j", "k", "l", "m",
      "n", "o", "p", "q", "r", "s", "t", "u", "v", "w", "x", "y", "z">>

UpperCase ==
    <<"A", "B", "C", "D", "E", "F", "G", "H", "I", "J", "K", "L", "M",
      "N", "O", "P", "Q", "R", "S", "T", "U", "V", "W", "X", "Y", "Z">>

\* str.upper() of a lower-case letter
ToUpper ==
    [ch \in {LowerCase[i] : i \in 1..Len(LowerCase)} |->
        UpperCase[CHOOSE i \in 1..Len(LowerCase) : LowerCase[i] = ch]]

\* str.lower() of an upper-case letter
ToLower ==
    [ch \in {UpperCase[i] : i \in 1..Len(UpperCase)} |->
        LowerCase[CHOOSE i \in 1..Len(UpperCase) : UpperCase[i] = ch]]

\* the letter a case map gives for a character, or the character itself
Recase(ch, map) == IF ch \in DOMAIN map THEN map[ch] ELSE ch

\* str.capitalize(): the first character upper case, the others lower case
Capitalize(chars) ==
    [i \in 1..Len(chars) |->
        IF i = 1 THEN Recase(chars[i], ToUpper) ELSE Recase(chars[i], ToLower)]

\* the characters of a role, which the model holds as one word
Spelled(role) ==
    CASE role = <<"user">> -> <<"u", "s", "e", "r">>
      [] role = <<"assistant">> -> <<"a", "s", "s", "i", "s", "t", "a", "n", "t">>
      [] role = <<"system">> -> <<"s", "y", "s", "t", "e", "m">>
      [] OTHER -> role

\* f"{role}: {content}\n\n" with role = msg["role"].capitalize()
FormattedMessage(msg) ==
    Capitalize(Spelled(msg.role.s)) \o <<":", " ">> \o msg.content.s \o <<"\n", "\n">>

\* formatted_conversation, the transcript that ends the summarization prompt
RECURSIVE FormattedConversation(_)
FormattedConversation(messages_to_summarize) ==
    IF messages_to_summarize = <<>> THEN <<>>
    ELSE FormattedMessage(Head(messages_to_summarize))
             \o FormattedConversation(Tail(messages_to_summarize))

\* a filter that passes only the two latest messages on
MessagesToSummarizeLatest(rows) ==
    PySliceFrom(SelectSeq(rows, LAMBDA m : m.role # Str(<<"system">>)), 0 - 2)

\* [msg for msg in messages if msg["role"] != "system"]
MessagesToSummarize(rows) == SelectSeq(rows, LAMBDA m : m.role # Str(<<"system">>))

\* the first gate compares the count as written; the mutant below lets a
\* count equal to the threshold be skipped
TooFewInclusive(rows, threshold) == Len(rows) <= threshold

\* len(...) < settings.memory.MEMORY_SUMMARIZE_THRESHOLD
TooFew(rows, threshold) == Len(rows) < threshold

\* the transcript in the completion request of p's call
SentTranscript(p) == FormattedConversation(MessagesToSummarize(fetched[p]))

\* a summarize_memory call is past its entry and has not returned
InFlight(p) == pc[p] \notin {"idle", "done"}

\* delete_conversation has removed the conversation document and has not returned
Deleting == deleter.pc \in {"messages", "memory"}

\* the guard with "and" in place of "or": one of the two being present is
\* enough to go on
NotConfiguredBoth(client, enabled) == ~client /\ ~enabled

\* not self.external_api_client or not settings.memory.MEMORY_ENABLED
NotConfigured(client, enabled) == ~client \/ ~enabled

\* a result that asks for more than one modified document
UpdateSucceededStrict(modified_count) == modified_count > 1

\* return result.modified_count > 0
UpdateSucceeded(modified_count) == modified_count > 0

\* an update that leaves the stored text as it is
UpdatedRowsKept(rows, text) == rows

\* update_one: $set summary on the first document that matches
UpdatedRows(rows, text) == [rows EXCEPT ![1].summary = text]

\* an insert that stores nothing
InsertedRowsNone(rows, text) == rows

\* insert_one: a new document with the summary
InsertedRows(rows, text) == Append(rows, [summary |-> text])

\* an update that also counts itself as a message
FlagUpdateCounting(doc) ==
    [doc EXCEPT !.memory_optimized = TRUE, !.message_count = @ + 1]

\* an update that flips the flag
FlagUpdateFlipped(doc) == [doc EXCEPT !.memory_optimized = ~@]

\* update_one on the conversation: $set memory_optimized True
FlagUpdate(doc) == [doc EXCEPT !.memory_optimized = TRUE]

\* the state after create_conversation: the document, and the system prompt
\* stored by add_message
StoreInit ==
    /\ unique_index = FALSE
    /\ conversation_doc = [exists |-> TRUE, message_count |-> 1,
                           memory_optimized |-> FALSE]
    /\ message_rows = <<SystemPrompt>>
    /\ summary_rows = <<>>

NoUpsert == [caller |-> "none", text |-> <<>>, count |-> 0]

CallInit ==
    /\ pc = [p \in Callers |-> "idle"]
    /\ fetched = [p \in Callers |-> <<>>]
    /\ summary_text = [p \in Callers |-> <<>>]
    /\ result = [p \in Callers |-> FALSE]
    /\ api_state = [p \in Callers |-> "not_called"]
    /\ wrote = [p \in Callers |-> FALSE]
    /\ solo = [p \in Callers |-> TRUE]
    /\ calls_made = 0
    /\ just_returned = "none"
    /\ solo_streak = 0
    /\ last_upsert = NoUpsert

\* no chat turn has started: the locals of process_chat_with_conversation
NoTurn ==
    [pc |-> "idle", message_count |-> 0, memory_summary |-> None,
     messages |-> <<>>, synthetic |-> FALSE, reply |-> <<>>,
     appended |-> 0, invoked |-> "undecided", count_after |-> 0,
     outcome |-> "none",
     response |-> "none"]

NoDelete == [pc |-> "idle", returned |-> "none"]

ChatInit ==
    /\ turn = [p \in Callers |-> NoTurn]
    /\ deleter = NoDelete

InitOpt ==
    /\ memory_max_messages \in 0..MaxMaxMessages
    /\ summarize_threshold \in 0..MaxThreshold
    /\ messages = <<>>
    /\ messages_type = "list"
    /\ optPc = "build"
    /\ optResult = NotRun
    /\ memory_enabled = TRUE
    /\ has_api_client = TRUE
    /\ legacy_index = FALSE
    /\ StoreInit
    /\ CallInit
    /\ ChatInit

Init ==
    /\ memory_max_messages = DefaultMaxMessages
    /\ summarize_threshold \in 1..MaxStored
    /\ messages = <<>>
    /\ messages_type = "list"
    /\ optPc = "build"
    /\ optResult = NotRun
    /\ memory_enabled \in BOOLEAN
    /\ has_api_client \in BOOLEAN
    /\ legacy_index \in LegacyIndexStates
    /\ StoreInit
    /\ CallInit
    /\ ChatInit

----------------------------------------------------------------------------
(* The optimizer applied to an argument list *)

\* the caller appends one more entry to the list it will pass
AppendEntry ==
    /\ optPc = "build"
    /\ Len(messages) < MaxLen
    /\ \E e \in Entries : messages' = Append(messages, e)
    /\ UNCHANGED <<messages_type, optPc, optResult>>
    /\ UNCHANGED <<settingVars, storeVars, callVars, chatVars>>

\* memory_service.optimize_conversation_history(messages)
Optimize ==
    /\ optPc = "build"
    /\ optResult' = OptimizeCall(messages_type, messages, memory_max_messages,
                                 summarize_threshold)
    /\ optPc' = "done"
    /\ messages' = ArgumentAfter(messages)
    /\ UNCHANGED messages_type
    /\ UNCHANGED <<settingVars, storeVars, callVars, chatVars>>

NextOpt == AppendEntry \/ Optimize

SpecOpt == InitOpt /\ [][NextOpt]_vars

\* the caller appends a message whose content is near the snippet limit
AppendSnippetEntry ==
    /\ optPc = "build"
    /\ Sized(messages_type)
    /\ Len(messages) < MaxLen
    /\ \E e \in SnippetEntries : messages' = Append(messages, e)
    /\ UNCHANGED <<messages_type, optPc, optResult>>
    /\ UNCHANGED <<settingVars, storeVars, callVars, chatVars>>

NextSnippet == AppendSnippetEntry \/ Optimize

SpecSnippet == InitOpt /\ [][NextSnippet]_vars

\* the argument is a value of any of the types tried
InitArg ==
    /\ memory_max_messages \in 0..MaxMaxMessages
    /\ summarize_threshold \in 0..MaxThreshold
    /\ messages = <<>>
    /\ messages_type \in ArgTypes
    /\ optPc = "build"
    /\ optResult = NotRun
    /\ memory_enabled = TRUE
    /\ has_api_client = TRUE
    /\ legacy_index = FALSE
    /\ StoreInit
    /\ CallInit
    /\ ChatInit

SpecArg == InitArg /\ [][NextSnippet]_vars

\* the caller appends a message to the list whose output shape is looked at
AppendShapeEntry ==
    /\ optPc = "build"
    /\ Len(messages) < MaxLen
    /\ \E e \in ShapeEntries : messages' = Append(messages, e)
    /\ UNCHANGED <<messages_type, optPc, optResult>>
    /\ UNCHANGED <<settingVars, storeVars, callVars, chatVars>>

\* the list a call returned is passed to the optimizer again
OptimizeOutput ==
    /\ optPc = "done"
    /\ ~optResult.raised
    /\ messages' = ArgumentAfter(optResult.out)
    /\ optResult' = OptimizeCall("list", optResult.out, memory_max_messages,
                                 summarize_threshold)
    /\ optPc' = "again"
    /\ UNCHANGED messages_type
    /\ UNCHANGED <<settingVars, storeVars, callVars, chatVars>>

NextShape == AppendShapeEntry \/ Optimize \/ OptimizeOutput

SpecShape == InitOpt /\ [][NextShape]_vars

----------------------------------------------------------------------------
(* ConversationService.add_message and summarize_memory, one step per await *)

\* a chat turn stores the user's message, then the assistant's
NextRole(rows) ==
    IF Len(MessagesToSummarize(rows)) % 2 = 0 THEN <<"user">> ELSE <<"assistant">>

\* add_message: the message document is created and message_count incremented
AddMessage ==
    /\ conversation_doc.exists
    /\ Len(MessagesToSummarize(message_rows)) < MaxStored
    /\ message_rows' = Append(message_rows, Dict(Str(NextRole(message_rows)),
                                                 Str(ShortText)))
    /\ conversation_doc' =
           [conversation_doc EXCEPT !.message_count = @ + 1]
    /\ just_returned' = "none"
    /\ UNCHANGED <<unique_index, summary_rows>>
    /\ UNCHANGED <<pc, fetched, summary_text, result, api_state, wrote, solo,
                   calls_made, solo_streak, last_upsert>>
    /\ UNCHANGED <<optVars, memory_enabled, has_api_client, legacy_index>>
    /\ UNCHANGED chatVars

\* bookkeeping of a step in which p's call returns value
Returns(p, value) ==
    /\ pc' = [pc EXCEPT ![p] = "done"]
    /\ result' = [result EXCEPT ![p] = value]
    /\ just_returned' = p
    /\ solo_streak' = IF value /\ solo[p] THEN Min2(solo_streak + 1, 2) ELSE 0

\* bookkeeping of a step after which p's call is still running
Continues(p, next) ==
    /\ pc' = [pc EXCEPT ![p] = next]
    /\ just_returned' = "none"
    /\ UNCHANGED <<result, solo_streak>>

\* summarize_memory is entered: the guard, then the messages are read, the
\* gates are applied and the completion request is issued
SmEnter(p) ==
    /\ calls_made' = calls_made + 1
    /\ summary_text' = [summary_text EXCEPT ![p] = <<>>]
    /\ wrote' = [wrote EXCEPT ![p] = FALSE]
    /\ IF NotConfigured(has_api_client, memory_enabled)
       THEN /\ fetched' = [fetched EXCEPT ![p] = <<>>]
            /\ api_state' = [api_state EXCEPT ![p] = "not_called"]
            /\ solo' = [solo EXCEPT ![p] = TRUE]
            /\ Returns(p, FALSE)
       ELSE /\ fetched' = [fetched EXCEPT ![p] = message_rows]
            /\ solo' = [q \in Callers |->
                           IF q = p
                           THEN ~Deleting /\ \A r \in Callers \ {p} : ~InFlight(r)
                           ELSE IF InFlight(q) THEN FALSE ELSE solo[q]]
            /\ IF \/ TooFew(message_rows, summarize_threshold)
                  \/ TooFew(MessagesToSummarize(message_rows), summarize_threshold)
               THEN /\ api_state' = [api_state EXCEPT ![p] = "not_called"]
                    /\ Returns(p, FALSE)
               ELSE /\ api_state' = [api_state EXCEPT ![p] = "pending"]
                    /\ Continues(p, "api")
    /\ UNCHANGED <<storeVars, last_upsert>>
    /\ UNCHANGED <<optVars, memory_enabled, has_api_client, legacy_index>>

\* summarize_memory called on its own
SmFetch(p) ==
    /\ ~InFlight(p)
    /\ calls_made < MaxCalls
    /\ SmEnter(p)
    /\ UNCHANGED chatVars

\* call_openai_api answers: a failure, or a text that is stripped
SmApiReturn(p) ==
    /\ pc[p] = "api"
    /\ \/ /\ api_state' = [api_state EXCEPT ![p] = "failure"]
          /\ Returns(p, FALSE)
          /\ UNCHANGED summary_text
       \/ \E message \in CompletionTexts :
          /\ api_state' = [api_state EXCEPT ![p] = "success"]
          /\ summary_text' = [summary_text EXCEPT ![p] = Strip(message)]
          /\ Continues(p, "find")
    /\ UNCHANGED <<storeVars, fetched, wrote, solo, calls_made, last_upsert>>
    /\ UNCHANGED <<optVars, memory_enabled, has_api_client, legacy_index>>
    /\ UNCHANGED chatVars

\* MongoMemoryRepository._get_collection: create_index succeeds unless another
\* index on the key or duplicate documents stand in the way
IndexAfterGetCollection ==
    unique_index \/ (~legacy_index /\ Len(summary_rows) <= 1)

\* update_summary: _get_collection tries to create the unique index (a
\* conflicting index or duplicate documents make it fail, which is logged),
\* then find_one looks for the conversation's summary
SmFind(p) ==
    /\ pc[p] = "find"
    /\ unique_index' = IndexAfterGetCollection
    /\ Continues(p, IF summary_rows # <<>> THEN "update" ELSE "insert")
    /\ UNCHANGED <<conversation_doc, message_rows, summary_rows>>
    /\ UNCHANGED <<fetched, summary_text, api_state, wrote, solo, calls_made,
                   last_upsert>>
    /\ UNCHANGED <<optVars, memory_enabled, has_api_client, legacy_index>>
    /\ UNCHANGED chatVars

\* update_one sets summary and updated_at on the first matching document;
\* modified_count is 0 when nothing matches or nothing changes
SmUpdateOne(p) ==
    /\ pc[p] = "update"
    /\ last_upsert' = [caller |-> p, text |-> summary_text[p],
                       count |-> Len(MessagesToSummarize(fetched[p]))]
    /\ IF summary_rows = <<>>
       THEN /\ Returns(p, FALSE)
            /\ UNCHANGED <<summary_rows, wrote>>
       ELSE \E same_timestamp \in BOOLEAN :
            LET modified_count ==
                    IF summary_rows[1].summary # summary_text[p] \/ ~same_timestamp
                    THEN 1 ELSE 0
            IN
            /\ summary_rows' = UpdatedRows(summary_rows, summary_text[p])
            /\ wrote' = [wrote EXCEPT ![p] = @ \/ modified_count > 0]
            /\ IF UpdateSucceeded(modified_count)
               THEN Continues(p, "flag")
               ELSE Returns(p, FALSE)
    /\ UNCHANGED <<unique_index, conversation_doc, message_rows>>
    /\ UNCHANGED <<fetched, summary_text, api_state, solo, calls_made>>
    /\ UNCHANGED <<optVars, memory_enabled, has_api_client, legacy_index>>
    /\ UNCHANGED chatVars

\* insert_one: a second document for the conversation raises
\* DuplicateKeyError when the unique index exists
SmInsertOne(p) ==
    /\ pc[p] = "insert"
    /\ last_upsert' = [caller |-> p, text |-> summary_text[p],
                       count |-> Len(MessagesToSummarize(fetched[p]))]
    /\ IF unique_index /\ summary_rows # <<>>
       THEN /\ Returns(p, FALSE)
            /\ UNCHANGED <<summary_rows, wrote>>
       ELSE /\ summary_rows' = InsertedRows(summary_rows, summary_text[p])
            /\ wrote' = [wrote EXCEPT ![p] = TRUE]
            /\ Continues(p, "flag")
    /\ UNCHANGED <<unique_index, conversation_doc, message_rows>>
    /\ UNCHANGED <<fetched, summary_text, api_state, solo, calls_made>>
    /\ UNCHANGED <<optVars, memory_enabled, has_api_client, legacy_index>>
    /\ UNCHANGED chatVars

\* conversation_repo.update(conversation_id, {"memory_optimized": True}),
\* whose outcome is not looked at; summarize_memory returns True
SmFlag(p) ==
    /\ pc[p] = "flag"
    /\ conversation_doc' =
           IF conversation_doc.exists
           THEN FlagUpdate(conversation_doc)
           ELSE conversation_doc
    /\ wrote' = [wrote EXCEPT ![p] = TRUE]
    /\ Returns(p, TRUE)
    /\ UNCHANGED <<unique_index, message_rows, summary_rows>>
    /\ UNCHANGED <<fetched, summary_text, api_state, solo, calls_made, last_upsert>>
    /\ UNCHANGED <<optVars, memory_enabled, has_api_client, legacy_index>>
    /\ UNCHANGED chatVars

Next ==
    \/ AddMessage
    \/ \E p \in Callers : SmFetch(p)
    \/ \E p \in Callers : SmApiReturn(p)
    \/ \E p \in Callers : SmFind(p)
    \/ \E p \in Callers : SmUpdateOne(p)
    \/ \E p \in Callers : SmInsertOne(p)
    \/ \E p \in Callers : SmFlag(p)

Spec == Init /\ [][Next]_vars

----------------------------------------------------------------------------
(* ChatService.process_chat_with_conversation and                          *)
(* ConversationService.delete_conversation, one step per await that writes *)

\* memory_doc["summary"] of the document find_one returns, when the feature is on
MemorySummary(rows, enabled) ==
    IF enabled /\ rows # <<>> THEN Str(rows[1].summary) ELSE None

\* f"Previous conversation summary: {memory_summary}"
SummaryContent(memory_summary) == SummaryMarker \o <<" ">> \o memory_summary

\* the stored messages whose role is not system, as role/content dicts
ContextTurns(rows) ==
    LET kept == MessagesToSummarize(rows)
    IN [i \in 1..Len(kept) |->
           Dict(Get(kept[i].role, Str(<<"user">>)), Get(kept[i].content, Str(<<>>)))]

\* if memory_summary: chat_history.append(...)
SummaryPart(memory_summary) ==
    IF Truthy(memory_summary)
    THEN <<Dict(Str(<<"system">>), Str(SummaryContent(memory_summary.s)))>>
    ELSE <<>>

\* extract_conversation_context for a conversation that exists
ExtractConversationContext(memory_summary, rows) ==
    <<SystemPrompt>> \o SummaryPart(memory_summary) \o ContextTurns(rows)

\* get_chat_completion: the history is optimized when it is not empty
OptimizedHistory(conversation_history) ==
    IF Len(conversation_history) > 0
    THEN OptimizeConversationHistory(conversation_history, memory_max_messages,
                                     summarize_threshold)
    ELSE Returned(conversation_history, FALSE)

Turning(p) == turn[p].pc \notin {"idle", "returned"}

InitChat ==
    /\ memory_max_messages \in 1..MaxWindow
    /\ summarize_threshold \in 2..MaxThreshold
    /\ messages = <<>>
    /\ messages_type = "list"
    /\ optPc = "build"
    /\ optResult = NotRun
    /\ memory_enabled = TRUE
    /\ has_api_client = TRUE
    /\ legacy_index \in LegacyIndexStates
    /\ StoreInit
    /\ CallInit
    /\ ChatInit

\* the turn's own request fails: the outer except, or a failed completion
TurnFails(p) ==
    turn' = [turn EXCEPT ![p] = [NoTurn EXCEPT !.pc = "returned",
                                               !.response = "failure"]]

\* get_conversation; then get_chat_completion reads the context, optimizes it
\* and sends it with the prompt
TurnStart(p) ==
    /\ turn[p].pc = "idle"
    /\ IF ~conversation_doc.exists
       THEN /\ TurnFails(p)
            /\ UNCHANGED unique_index
       ELSE LET memory_summary == MemorySummary(summary_rows, memory_enabled)
                optimized ==
                    OptimizedHistory(ExtractConversationContext(memory_summary,
                                                                message_rows))
            IN /\ unique_index' =
                      IF memory_enabled THEN IndexAfterGetCollection ELSE unique_index
               /\ IF optimized.raised
                  THEN TurnFails(p)
                  ELSE turn' = [turn EXCEPT ![p] =
                           [NoTurn EXCEPT
                               !.pc = "completion",
                               !.message_count = conversation_doc.message_count,
                               !.memory_summary = memory_summary,
                               !.messages = optimized.out
                                   \o <<Dict(Str(<<"user">>), Str(ShortText))>>,
                               !.synthetic = optimized.synthetic]]
    /\ just_returned' = "none"
    /\ UNCHANGED <<conversation_doc, message_rows, summary_rows, deleter>>
    /\ UNCHANGED <<pc, fetched, summary_text, result, api_state, wrote, solo,
                   calls_made, solo_streak, last_upsert>>
    /\ UNCHANGED <<optVars, memory_enabled, has_api_client, legacy_index>>

\* a turn that goes straight to storing the reply
AfterCompletionReplyOnly(exists) == "check_assistant"

\* after a successful completion add_message(user) comes first; it stores the
\* message if it finds the conversation
AfterCompletion(exists) == IF exists THEN "create_user" ELSE "check_assistant"

\* call_openai_api answers the turn; on success add_message(user) looks the
\* conversation up
TurnCompletion(p) ==
    /\ turn[p].pc = "completion"
    /\ \/ TurnFails(p)
       \/ turn' = [turn EXCEPT ![p].reply = ReplyText,
                               ![p].messages = <<>>,
                               ![p].pc = AfterCompletion(conversation_doc.exists)]
    /\ just_returned' = "none"
    /\ UNCHANGED <<storeVars, deleter>>
    /\ UNCHANGED <<pc, fetched, summary_text, result, api_state, wrote, solo,
                   calls_made, solo_streak, last_upsert>>
    /\ UNCHANGED <<optVars, memory_enabled, has_api_client, legacy_index>>

\* message_repo.create, then increment_message_count ($inc on the document,
\* if it is still there)
Created(role, content) ==
    /\ message_rows' = Append(message_rows, Dict(Str(role), Str(content)))
    /\ conversation_doc' =
           IF conversation_doc.exists
           THEN [conversation_doc EXCEPT !.message_count = @ + 1]
           ELSE conversation_doc

\* add_message(user) stores the user's message
TurnCreateUser(p) ==
    /\ turn[p].pc = "create_user"
    /\ Created(<<"user">>, ShortText)
    /\ turn' = [turn EXCEPT ![p].pc = "check_assistant", ![p].appended = @ + 1]
    /\ just_returned' = "none"
    /\ UNCHANGED <<unique_index, summary_rows, deleter>>
    /\ UNCHANGED <<pc, fetched, summary_text, result, api_state, wrote, solo,
                   calls_made, solo_streak, last_upsert>>
    /\ UNCHANGED <<optVars, memory_enabled, has_api_client, legacy_index>>

\* add_message(assistant) looks the conversation up
TurnCheckAssistant(p) ==
    /\ turn[p].pc = "check_assistant"
    /\ turn' = [turn EXCEPT ![p].pc = IF conversation_doc.exists
                                      THEN "create_assistant"
                                      ELSE "decide"]
    /\ just_returned' = "none"
    /\ UNCHANGED <<storeVars, deleter>>
    /\ UNCHANGED <<pc, fetched, summary_text, result, api_state, wrote, solo,
                   calls_made, solo_streak, last_upsert>>
    /\ UNCHANGED <<optVars, memory_enabled, has_api_client, legacy_index>>

\* add_message(assistant) stores the reply
TurnCreateAssistant(p) ==
    /\ turn[p].pc = "create_assistant"
    /\ Created(<<"assistant">>, turn[p].reply)
    /\ turn' = [turn EXCEPT ![p].pc = "decide",
                            ![p].appended = @ + 1,
                            ![p].count_after = conversation_doc'.message_count]
    /\ just_returned' = "none"
    /\ UNCHANGED <<unique_index, summary_rows, deleter>>
    /\ UNCHANGED <<pc, fetched, summary_text, result, api_state, wrote, solo,
                   calls_made, solo_streak, last_upsert>>
    /\ UNCHANGED <<optVars, memory_enabled, has_api_client, legacy_index>>

\* the inner except clause swallowed the exception and the turn goes on; the
\* variant below lets the exception reach the outer except clause
SummarizeRaisedEscapes == "except"

\* except Exception around the summarize_memory call: log, then go on
SummarizeRaised == "history"

\* message_count = conversation.get("message_count", 0) + 2, from the document
\* read when the turn started; at or above the threshold summarize_memory is
\* awaited, and either enters (ConversationService) or raises (any other
\* IConversationService)
TurnDecide(p) ==
    /\ turn[p].pc = "decide"
    /\ LET message_count == turn[p].message_count + 2
       IN IF message_count >= summarize_threshold
          THEN \/ /\ SmEnter(p)
                  /\ turn' = [turn EXCEPT ![p].invoked = "yes",
                                          ![p].pc = "summarizing"]
               \/ /\ turn' = [turn EXCEPT ![p].invoked = "yes",
                                          ![p].outcome = "raised",
                                          ![p].pc = SummarizeRaised]
                  /\ just_returned' = "none"
                  /\ UNCHANGED <<storeVars, optVars, memory_enabled,
                                 has_api_client, legacy_index>>
                  /\ UNCHANGED <<pc, fetched, summary_text, result, api_state,
                                 wrote, solo, calls_made, solo_streak, last_upsert>>
          ELSE /\ turn' = [turn EXCEPT ![p].invoked = "no", ![p].pc = "history"]
               /\ just_returned' = "none"
               /\ UNCHANGED <<storeVars, optVars, memory_enabled,
                              has_api_client, legacy_index>>
               /\ UNCHANGED <<pc, fetched, summary_text, result, api_state,
                              wrote, solo, calls_made, solo_streak, last_upsert>>
    /\ UNCHANGED deleter

\* after the summarization step: get_conversation_messages, and the result of
\* the completion is returned; an exception that reached the outer except
\* clause returns a failure instead. The locals of the turn and of its
\* summarize_memory call are gone.
TurnFinish(p) ==
    /\ \/ turn[p].pc \in {"history", "except"}
       \/ turn[p].pc = "summarizing" /\ pc[p] = "done"
    /\ turn' = [turn EXCEPT ![p] =
           [NoTurn EXCEPT
               !.pc = "returned",
               !.reply = turn[p].reply,
               !.invoked = turn[p].invoked,
               !.outcome = IF turn[p].pc = "summarizing"
                           THEN (IF result[p] THEN "true" ELSE "false")
                           ELSE turn[p].outcome,
               !.response = IF turn[p].pc = "except" THEN "failure" ELSE "success"]]
    /\ pc' = [pc EXCEPT ![p] = "idle"]
    /\ fetched' = [fetched EXCEPT ![p] = <<>>]
    /\ summary_text' = [summary_text EXCEPT ![p] = <<>>]
    /\ result' = [result EXCEPT ![p] = FALSE]
    /\ api_state' = [api_state EXCEPT ![p] = "not_called"]
    /\ wrote' = [wrote EXCEPT ![p] = FALSE]
    /\ solo' = [solo EXCEPT ![p] = TRUE]
    /\ just_returned' = "none"
    /\ UNCHANGED <<storeVars, deleter>>
    /\ UNCHANGED <<calls_made, solo_streak, last_upsert>>
    /\ UNCHANGED <<optVars, memory_enabled, has_api_client, legacy_index>>

\* delete_conversation: conversation_repo.delete removes the document
DeleteStart ==
    /\ deleter.pc = "idle"
    /\ IF conversation_doc.exists
       THEN /\ conversation_doc' = [conversation_doc EXCEPT !.exists = FALSE]
            /\ deleter' = [deleter EXCEPT !.pc = "messages"]
       ELSE /\ deleter' = [pc |-> "done", returned |-> "false"]
            /\ UNCHANGED conversation_doc
    /\ solo' = [q \in Callers |-> IF InFlight(q) THEN FALSE ELSE solo[q]]
    /\ just_returned' = "none"
    /\ UNCHANGED <<unique_index, message_rows, summary_rows, turn>>
    /\ UNCHANGED <<pc, fetched, summary_text, result, api_state, wrote,
                   calls_made, solo_streak, last_upsert>>
    /\ UNCHANGED <<optVars, memory_enabled, has_api_client, legacy_index>>

\* message_repo.delete_by_conversation_id: delete_many
DeleteMessages ==
    /\ deleter.pc = "messages"
    /\ message_rows' = <<>>
    /\ deleter' = [deleter EXCEPT !.pc = "memory"]
    /\ just_returned' = "none"
    /\ UNCHANGED <<unique_index, conversation_doc, summary_rows, turn>>
    /\ UNCHANGED <<pc, fetched, summary_text, result, api_state, wrote, solo,
                   calls_made, solo_streak, last_upsert>>
    /\ UNCHANGED <<optVars, memory_enabled, has_api_client, legacy_index>>

\* memory_repo.delete_by_conversation_id: delete_one removes the first
\* matching document; delete_conversation returns True
DeleteMemory ==
    /\ deleter.pc = "memory"
    /\ unique_index' = IndexAfterGetCollection
    /\ summary_rows' = IF summary_rows = <<>> THEN <<>> ELSE Tail(summary_rows)
    /\ deleter' = [pc |-> "done", returned |-> "true"]
    /\ just_returned' = "none"
    /\ UNCHANGED <<conversation_doc, message_rows, turn>>
    /\ UNCHANGED <<pc, fetched, summary_text, result, api_state, wrote, solo,
                   calls_made, solo_streak, last_upsert>>
    /\ UNCHANGED <<optVars, memory_enabled, has_api_client, legacy_index>>

\* the client sends its next message: process_chat_with_conversation is
\* called again for the conversation
TurnNext(p) ==
    /\ turn[p].pc = "returned"
    /\ Len(MessagesToSummarize(message_rows)) <= MaxHistory
    /\ turn' = [turn EXCEPT ![p] = NoTurn]
    /\ just_returned' = "none"
    /\ UNCHANGED <<storeVars, deleter>>
    /\ UNCHANGED <<pc, fetched, summary_text, result, api_state, wrote, solo,
                   calls_made, solo_streak, last_upsert>>
    /\ UNCHANGED <<optVars, memory_enabled, has_api_client, legacy_index>>

NextChat ==
    \/ \E p \in Callers : TurnStart(p)
    \/ \E p \in Callers : TurnCompletion(p)
    \/ \E p \in Callers : TurnCreateUser(p)
    \/ \E p \in Callers : TurnCheckAssistant(p)
    \/ \E p \in Callers : TurnCreateAssistant(p)
    \/ \E p \in Callers : TurnDecide(p)
    \/ \E p \in Callers : TurnFinish(p)
    \/ \E p \in Callers : SmApiReturn(p)
    \/ \E p \in Callers : SmFind(p)
    \/ \E p \in Callers : SmUpdateOne(p)
    \/ \E p \in Callers : SmInsertOne(p)
    \/ \E p \in Callers : SmFlag(p)
    \/ DeleteStart
    \/ DeleteMessages
    \/ DeleteMemory

SpecChat == InitChat /\ [][NextChat]_vars

\* one client whose turns follow one another
SeqCallers == {"c1"}

NextSeq ==
    \/ \E p \in SeqCallers : TurnStart(p)
    \/ \E p \in SeqCallers : TurnCompletion(p)
    \/ \E p \in SeqCallers : TurnCreateUser(p)
    \/ \E p \in SeqCallers : TurnCheckAssistant(p)
    \/ \E p \in SeqCallers : TurnCreateAssistant(p)
    \/ \E p \in SeqCallers : TurnDecide(p)
    \/ \E p \in SeqCallers : TurnFinish(p)
    \/ \E p \in SeqCallers : TurnNext(p)
    \/ \E p \in SeqCallers : SmApiReturn(p)
    \/ \E p \in SeqCallers : SmFind(p)
    \/ \E p \in SeqCallers : SmUpdateOne(p)
    \/ \E p \in SeqCallers : SmInsertOne(p)
    \/ \E p \in SeqCallers : SmFlag(p)

SpecSeq == InitChat /\ [][NextSeq]_vars

----------------------------------------------------------------------------
(* Properties of optimize_conversation_history, checked under SpecOpt *)

KnownRoles == {Str(<<"system">>), Str(<<"user">>), Str(<<"assistant">>)}

HasKnownRole(e) == e.isDict /\ e.role \in KnownRoles

HasSystemRole(e) == e.isDict /\ e.role = Str(<<"system">>)

HasTurnRole(e) == e.isDict /\ e.role \in {Str(<<"user">>), Str(<<"assistant">>)}

\* number of user/assistant messages of a list
TurnCount(list) == Cardinality({i \in 1..Len(list) : HasTurnRole(list[i])})

TurnsOf(list) == SelectSeq(list, HasTurnRole)

SystemsOf(list) == SelectSeq(list, HasSystemRole)

\* the last k elements of a list (none for k <= 0)
LastK(list, k) == SubSeq(list, Len(list) - Min2(Max2(k, 0), Len(list)) + 1, Len(list))

\* every system message comes before every user/assistant message
SystemFirst(list) ==
    \A i, j \in 1..Len(list) :
        (HasTurnRole(list[i]) /\ HasSystemRole(list[j])) => j < i

MarkerInInput ==
    \E i \in 1..Len(messages) :
        /\ HasSystemRole(messages[i])
        /\ messages[i].content.t = "str"
        /\ Contains(messages[i].content.s, SummaryMarker)

OptDone == optPc = "done"

\* C1 as stated: whenever the input has at most max_messages user/assistant
\* messages, the returned list equals the input list.
C1_AsStated ==
    (OptDone /\ TurnCount(messages) <= memory_max_messages)
        => (~optResult.raised /\ optResult.out = messages)

\* C1: when the input holds only system/user/assistant dicts, with every
\* system message before every user/assistant message, and has at most
\* max_messages user/assistant messages, the returned list equals the input.
C1_ShortHistoryUnchanged ==
    (/\ OptDone
     /\ TurnCount(messages) <= memory_max_messages
     /\ \A i \in 1..Len(messages) : HasKnownRole(messages[i])
     /\ SystemFirst(messages))
        => (~optResult.raised /\ optResult.out = messages)

C1_Witness ==
    /\ OptDone
    /\ TurnCount(messages) = memory_max_messages
    /\ memory_max_messages >= 2
    /\ Len(messages) > memory_max_messages
    /\ \A i \in 1..Len(messages) : HasKnownRole(messages[i])
    /\ SystemFirst(messages)
    /\ optResult.out = messages

\* C2: the user/assistant messages of the output, plus one when a synthetic
\* summary message was added, never number more than max_messages + 1.
C2_Bounded ==
    (OptDone /\ ~optResult.raised)
        => TurnCount(optResult.out) + (IF optResult.synthetic THEN 1 ELSE 0)
               <= memory_max_messages + 1

\* C3: with a marker-carrying system message and more than max_messages
\* user/assistant messages, the output is the input's system messages followed
\* by the last max_messages user/assistant messages, with no synthetic message.
C3_MarkerReuse ==
    (OptDone /\ MarkerInInput /\ TurnCount(messages) > memory_max_messages)
        => /\ ~optResult.raised
           /\ ~optResult.synthetic
           /\ optResult.out = SystemsOf(messages)
                                \o LastK(TurnsOf(messages), memory_max_messages)

\* C4: with n > max_messages user/assistant messages and no marker, the output
\* keeps exactly the max_messages - 2 most recent of them, and carries one
\* fallback message stating N = split_point = max(0, n - max_messages + 2)
\* exactly when split_point >= summarize_threshold.
C4_SplitAndFallback ==
    (OptDone /\ ~MarkerInInput /\ TurnCount(messages) > memory_max_messages)
        => LET sp == Max2(0, TurnCount(messages) - memory_max_messages + 2)
               nsys == Len(SystemsOf(messages))
               stated == FallbackPrefix \o IntToStr(sp) \o FallbackMiddle
           IN /\ ~optResult.raised
              /\ TurnCount(optResult.out) = memory_max_messages - 2
              /\ TurnsOf(optResult.out)
                     = LastK(TurnsOf(messages), memory_max_messages - 2)
              /\ optResult.synthetic <=> (sp >= summarize_threshold)
              /\ optResult.synthetic =>
                     /\ Len(optResult.out) = nsys + 1 + memory_max_messages - 2
                     /\ HasSystemRole(optResult.out[nsys + 1])
                     /\ SubSeq(optResult.out[nsys + 1].content.s, 1, Len(stated))
                            = stated

\* C5: the call returns a list, whatever the entries of its list argument.
C5_NeverRaises == OptDone => ~optResult.raised

\* C6: entries whose role is not system, user or assistant are absent from
\* the output, and the call returns what it returns for the list without them.
C6_UnknownRolesIgnored ==
    OptDone =>
        /\ \A i \in 1..Len(optResult.out) : HasKnownRole(optResult.out[i])
        /\ optResult = OptimizeConversationHistory(SelectSeq(messages, HasKnownRole),
                                                   memory_max_messages,
                                                   summarize_threshold)

C6_Witness ==
    /\ OptDone
    /\ ~optResult.raised
    /\ optResult.synthetic
    /\ \E i \in 1..Len(messages) : ~HasKnownRole(messages[i])
    /\ TurnCount(messages) = memory_max_messages + 1
    /\ TurnCount(optResult.out) = memory_max_messages - 2

\* the content of the last of the older messages, '' when it has no content key
LastOlderContent ==
    LET turns == TurnsOf(messages)
        k == Min2(Max2(0, Len(turns) - memory_max_messages + 2), Len(turns))
    IN Get(turns[k].content, Str(<<>>)).s

\* the content of the fallback message of the output
FallbackOut == optResult.out[Len(SystemsOf(messages)) + 1].content.s

\* what follows "Most recent topic: " in the fallback message
SnippetOut ==
    LET k == Min2(Max2(0, TurnCount(messages) - memory_max_messages + 2),
                  TurnCount(messages))
        head == FallbackPrefix \o IntToStr(k) \o FallbackMiddle
    IN SubSeq(FallbackOut, Len(head) + 1, Len(FallbackOut))

\* C20: the snippet of a fallback message is the content of the last older
\* message when that has at most 100 characters, and otherwise its first 97
\* characters followed by "...": 100 characters, the content ending in "...".
C20_SnippetTruncation ==
    (OptDone /\ optResult.synthetic) =>
        IF Len(LastOlderContent) <= 100
        THEN SnippetOut = LastOlderContent
        ELSE /\ SnippetOut = SubSeq(LastOlderContent, 1, 97) \o <<".", ".", ".">>
             /\ Len(SnippetOut) = 100
             /\ LastK(FallbackOut, 3) = <<".", ".", ".">>

\* a fallback message was built from an older message of 101 characters
C20_Witness ==
    /\ OptDone
    /\ optResult.synthetic
    /\ LastOlderContent = TailedText
    /\ Len(SnippetOut) = 100
    /\ LastK(FallbackOut, 3) = <<".", ".", ".">>

\* C21: called with None, with an empty list or with a value that is not a
\* list, the optimizer returns an empty list and raises nothing.
C21_EmptyForNoList ==
    (OptDone /\ (messages_type # "list" \/ messages = <<>>))
        => (~optResult.raised /\ optResult.out = <<>>)

\* a tuple of three messages, more than the window holds, was passed
C21_Witness ==
    /\ OptDone
    /\ messages_type = "tuple"
    /\ Len(messages) = 3
    /\ TurnCount(messages) > memory_max_messages
    /\ ~optResult.raised
    /\ optResult.out = <<>>

----------------------------------------------------------------------------
(* Properties of the optimizer's output, checked under SpecShape *)

\* the user/assistant messages of the input from position i + 1 on
TurnsFrom(i) == PySliceFrom(TurnsOf(messages), i)

\* C22: a returned list consists of the input's system messages in input
\* order, then at most one further system message (the fallback), then
\* user/assistant messages only, which are a suffix of the input's
\* user/assistant messages in input order.
C22_OutputShape ==
    (OptDone /\ ~optResult.raised) =>
        LET out == optResult.out
            nsys == Len(SystemsOf(messages))
            extra == Len(SystemsOf(out)) - nsys
            rest == SubSeq(out, nsys + extra + 1, Len(out))
        IN /\ extra \in {0, 1}
           /\ SubSeq(out, 1, nsys) = SystemsOf(messages)
           /\ extra = 1 =>
                  /\ HasSystemRole(out[nsys + 1])
                  /\ SubSeq(out[nsys + 1].content.s, 1, Len(FallbackPrefix))
                         = FallbackPrefix
           /\ rest = TurnsOf(out)
           /\ Len(rest) <= TurnCount(messages)
           /\ rest = LastK(TurnsOf(messages), Len(rest))

\* the input's system message stood after a user/assistant message; it was
\* returned first, followed by a fallback message
C22_Witness ==
    /\ OptDone
    /\ ~optResult.raised
    /\ Len(messages) = 4
    /\ HasTurnRole(messages[1])
    /\ Len(SystemsOf(messages)) = 1
    /\ TurnCount(messages) = 3
    /\ Len(SystemsOf(optResult.out)) = 2
    /\ optResult.out[1] = SystemsOf(messages)[1]

\* C23: with more than max_messages user/assistant messages, no marker and a
\* split point below summarize_threshold, the call returns the system messages
\* followed by the user/assistant messages from the split point on, and no
\* summary message.
C23_PlainTruncation ==
    LET sp == Max2(0, TurnCount(messages) - memory_max_messages + 2)
    IN (/\ OptDone
        /\ TurnCount(messages) > memory_max_messages
        /\ ~MarkerInInput
        /\ sp < summarize_threshold)
           => /\ ~optResult.raised
              /\ optResult.out = SystemsOf(messages) \o TurnsFrom(sp)
              /\ Len(SystemsOf(optResult.out)) = Len(SystemsOf(messages))

\* four messages against a window of three and a threshold of four: the last
\* one is returned alone
C23_Witness ==
    /\ OptDone
    /\ TurnCount(messages) = 4
    /\ memory_max_messages = 3
    /\ summarize_threshold = 4
    /\ optResult.out = <<messages[4]>>

----------------------------------------------------------------------------
(* Properties of summarize_memory and update_summary, checked under Spec *)

\* number of stored messages whose role is not system
NonSystemCount(rows) ==
    Cardinality({i \in 1..Len(rows) : rows[i].role # Str(<<"system">>)})

Configured == has_api_client /\ memory_enabled

\* C7: a call that read fewer than summarize_threshold non-system messages
\* has returned false without invoking the completion capability and without
\* writing the summary or the flag; a call that read at least the threshold
\* (a count equal to it included) has invoked the completion capability.
C7_ThresholdGate ==
    \A p \in Callers :
        (Configured /\ pc[p] # "idle") =>
            IF NonSystemCount(fetched[p]) < summarize_threshold
            THEN /\ pc[p] = "done"
                 /\ result[p] = FALSE
                 /\ api_state[p] = "not_called"
                 /\ ~wrote[p]
            ELSE api_state[p] # "not_called"

\* the call read threshold - 1 conversational messages and the system prompt,
\* so that only the second gate stops it
C7_Witness ==
    \E p \in Callers :
        /\ Configured
        /\ pc[p] = "done"
        /\ Len(fetched[p]) = summarize_threshold
        /\ NonSystemCount(fetched[p]) = summarize_threshold - 1
        /\ summarize_threshold >= 2
        /\ result[p] = FALSE
        /\ api_state[p] = "not_called"
        /\ \E q \in Callers : api_state[q] = "success"

\* C8: when a call returns true right after another call that returned true,
\* neither overlapping any other call, the store holds exactly one summary
\* row, with the text of the call that just returned.
C8_UpsertSemantics ==
    \A p \in Callers :
        (just_returned = p /\ solo_streak = 2) =>
            /\ Len(summary_rows) = 1
            /\ summary_rows[1].summary = summary_text[p]

\* C9: the store never holds more than one summary row for the conversation.
C9_AtMostOneRow == Len(summary_rows) <= 1

\* C10: when the two callers' calls overlapped, both got a successful
\* completion and both have finished, the summary row holds the text of the
\* call whose update_summary wrote last.
C10_LastUpsertWins ==
    (\A p \in Callers :
        pc[p] = "done" /\ ~solo[p] /\ api_state[p] = "success")
        => /\ summary_rows # <<>>
           /\ summary_rows[1].summary = last_upsert.text

\* C11: with the memory feature disabled or no completion client configured,
\* a summarize_memory call has returned false at once: it read no messages,
\* called no completion and wrote neither a summary row nor the flag.
C11_DisabledDoesNothing ==
    \A p \in Callers :
        (~Configured /\ pc[p] # "idle") =>
            /\ pc[p] = "done"
            /\ result[p] = FALSE
            /\ fetched[p] = <<>>
            /\ api_state[p] = "not_called"
            /\ ~wrote[p]
            /\ summary_rows = <<>>
            /\ ~conversation_doc.memory_optimized

\* the feature is enabled but no client is configured, and the conversation
\* holds enough messages to pass both gates
C11_Witness ==
    \E p \in Callers :
        /\ memory_enabled
        /\ ~has_api_client
        /\ pc[p] = "done"
        /\ result[p] = FALSE
        /\ NonSystemCount(message_rows) >= summarize_threshold

\* C12: a summarize_memory call that has returned false changed neither a
\* summary row nor the flag, whichever of the gates, the completion or the
\* persistence made it fail.
C12_FalseLeavesStore ==
    \A p \in Callers :
        (pc[p] = "done" /\ result[p] = FALSE) => ~wrote[p]

\* a call failed in update_one (nothing modified) after another call's summary
\* was stored, and the row still holds what it held
C12_Witness ==
    \E p \in Callers :
        /\ pc[p] = "done"
        /\ result[p] = FALSE
        /\ api_state[p] = "success"
        /\ summary_rows # <<>>
        /\ summary_rows[1].summary = summary_text[p]
        /\ ~wrote[p]

\* a step of some caller's summarize_memory call: it is entered, or it moves on
SummarizeStep == calls_made' # calls_made \/ pc' # pc

ExpectedLine(row) ==
    (IF row.role = Str(<<"user">>) THEN <<"U", "s", "e", "r">>
     ELSE <<"A", "s", "s", "i", "s", "t", "a", "n", "t">>)
        \o <<":", " ">> \o row.content.s \o <<"\n", "\n">>

\* the lines of the first k stored messages, system messages left out
RECURSIVE ExpectedTranscript(_, _)
ExpectedTranscript(rows, k) ==
    IF k = 0 THEN <<>>
    ELSE ExpectedTranscript(rows, k - 1)
             \o (IF rows[k].role = Str(<<"system">>) THEN <<>>
                 ELSE ExpectedLine(rows[k]))

\* C28: in the step in which a summarize_memory call issues its completion
\* request, the transcript it sends holds one line for every non-system
\* message stored at that moment, in timestamp order, and none for a system
\* message, whether or not a summary is already stored.
C28_TranscriptIsWhole ==
    [][\A p \in Callers :
          (api_state[p] # "pending" /\ api_state'[p] = "pending") =>
              FormattedConversation(MessagesToSummarize(fetched'[p]))
                  = ExpectedTranscript(message_rows, Len(message_rows))]_vars

\* a call sends the lines of all three stored messages while a summary made
\* from fewer of them is stored
C28_Witness ==
    \E p \in Callers :
        /\ api_state[p] = "pending"
        /\ summary_rows # <<>>
        /\ conversation_doc.memory_optimized
        /\ summarize_threshold < 3
        /\ Len(fetched[p]) = 4
        /\ SentTranscript(p) = ExpectedTranscript(fetched[p], 4)
        /\ Len(SentTranscript(p)) = 10 + 15 + 10

----------------------------------------------------------------------------
(* Properties of chat turns, summarize_memory and delete_conversation,     *)
(* checked under SpecChat                                                  *)

\* the conversation's flag reads true
Flagged == conversation_doc.exists /\ conversation_doc.memory_optimized

C14_TurnSurvivesSummarization ==
    \A p \in Callers :
        (turn[p].pc = "returned" /\ turn[p].reply # <<>>) =>
            /\ turn[p].response = "success"
            /\ turn[p].reply = ReplyText

\* one turn returned after its summarization raised, the other after it
\* returned false
C14_Witness ==
    \E p, q \in Callers :
        /\ turn[p].pc = "returned"
        /\ turn[p].outcome = "raised"
        /\ turn[p].response = "success"
        /\ turn[q].pc = "returned"
        /\ turn[q].outcome = "false"
        /\ turn[q].response = "success"

\* C15: at the step in which a turn that invoked summarize_memory returns its
\* response, that call's completion request has not been answered yet.
C15_FireAndForget ==
    [][\A p \in Callers :
          (turn[p].pc = "summarizing" /\ turn'[p].pc = "returned")
              => api_state[p] \in {"not_called", "pending"}]_vars

\* C16: with no delete_conversation started, a turn that has appended its
\* user and assistant messages invoked summarize_memory exactly when the
\* conversation's message count right after the second append was at or above
\* summarize_threshold.
C16_TriggerMatchesCount ==
    \A p \in Callers :
        (deleter.pc = "idle" /\ turn[p].invoked # "undecided"
            /\ turn[p].appended = 2) =>
            (turn[p].invoked = "yes" <=> turn[p].count_after >= summarize_threshold)

C18_SummaryInContext ==
    \A p \in Callers :
        (turn[p].pc = "completion" /\ memory_enabled
            /\ turn[p].memory_summary.t = "str") =>
            /\ \E i \in 1..Len(turn[p].messages) :
                   turn[p].messages[i]
                       = Dict(Str(<<"system">>),
                              Str(SummaryContent(turn[p].memory_summary.s)))
            /\ ~turn[p].synthetic

\* C19: once delete_conversation has returned true and no turn and no
\* summarize_memory call is running, no summary row and no message row is left.
C19_NothingLeft ==
    (deleter.returned = "true" /\ \A p \in Callers : ~InFlight(p) /\ ~Turning(p))
        => summary_rows = <<>> /\ message_rows = <<>>

\* C25: in every state, whatever steps the summarize_memory calls and the
\* delete_conversation have or have not taken yet, a conversation whose
\* memory_optimized flag is true has a summary row.
C25_FlagImpliesRow == Flagged => summary_rows # <<>>

\* the converse does not hold: a call has stored the summary row and has not
\* set the flag yet
C25_Witness ==
    \E p \in Callers :
        /\ pc[p] = "flag"
        /\ conversation_doc.exists
        /\ ~conversation_doc.memory_optimized
        /\ summary_rows = <<[summary |-> summary_text[p]]>>
        /\ deleter.pc = "idle"

----------------------------------------------------------------------------
(* Properties of a sequence of chat turns, checked under SpecSeq *)

\* the stored user/assistant messages the context of c1's turn left out
DroppedCount ==
    NonSystemCount(message_rows) - (TurnCount(turn["c1"].messages) - 1)

\* the context of c1's turn was built with a stored summary and without the
\* oldest stored messages: the optimizer took the marker path
MarkerPathDropped ==
    /\ turn["c1"].pc = "completion"
    /\ Truthy(turn["c1"].memory_summary)
    /\ DroppedCount > 0

\* C24: whenever the context built for a turn takes the marker path and
\* leaves out the oldest stored user/assistant messages, each of them was in
\* the transcript from which the stored summary was made.
C24_DroppedWasSummarized ==
    MarkerPathDropped =>
        /\ summary_rows # <<>>
        /\ summary_rows[1].summary = last_upsert.text
        /\ DroppedCount <= last_upsert.count

====
